---- MODULE Spec2Model ----
(***************************************************************************)
(* The CMR search notebook (src/unnamed/part_000): the concept ID lookup,  *)
(* the three paginated granule searches (point, bounding box, polygon),    *)
(* the results table (build, explode, name, filter) and the text file of   *)
(* asset URLs.  Cells run top to bottom; an exception ends the run.        *)
(*                                                                         *)
(* Python strings that the code inspects (hrefs, ring strings) are         *)
(* sequences of one-character strings, so that `in`, split and to_csv are  *)
(* computed on the characters.  Opaque strings (concept ID, temporal,      *)
(* cloud cover, titles) are TLA+ strings.                                  *)
(***************************************************************************)
EXTENDS Integers, Sequences, FiniteSets, TLC

\* ------------------------------------------------------------------ bounds
\* Largest number of granules the server's catalogue holds for the query.
MaxGranules == 2
\* Largest number of granules the server puts on one page (at most page_size).
MaxPerPage == 2
\* Largest number of granule requests of one search the model follows.
MaxRequests == 4

\* ------------------------------------------------------- python str helpers
\* Python `pat in s` on strings.
Contains(s, pat) ==
    \E i \in 1..(Len(s) - Len(pat) + 1) : SubSeq(s, i, i + Len(pat) - 1) = pat

RECURSIVE SplitFrom(_, _, _, _)
SplitFrom(s, sep, i, cur) ==
    IF i > Len(s) THEN <<cur>>
    ELSE IF s[i] = sep THEN <<cur>> \o SplitFrom(s, sep, i + 1, <<>>)
    ELSE SplitFrom(s, sep, i + 1, Append(cur, s[i]))

\* Python s.split(sep) for a one-character separator (no maxsplit).
Split(s, sep) == SplitFrom(s, sep, 1, <<>>)

\* Python " ".join((a, b)).
JoinPair(a, b) == a \o <<" ">> \o b

Digits == <<"0", "1", "2", "3", "4", "5", "6", "7", "8", "9">>
DigitChars == {Digits[i] : i \in 1..10}
DigitVal(c) == (CHOOSE i \in 1..10 : Digits[i] = c) - 1

RECURSIVE DecVal(_)
DecVal(ds) ==
    IF ds = <<>> THEN 0 ELSE 10 * DecVal(SubSeq(ds, 1, Len(ds) - 1)) + DigitVal(ds[Len(ds)])

\* Python float(tok) on the tokens the model's rings use: an optional minus
\* sign and decimal digits.  Anything else here (the empty token of a double
\* space, a stray sign) is a ValueError.
FloatOk(tok) ==
    LET body == IF tok # <<>> /\ tok[1] = "-" THEN Tail(tok) ELSE tok
    IN  body # <<>> /\ \A i \in 1..Len(body) : body[i] \in DigitChars
FloatOf(tok) ==
    IF tok[1] = "-" THEN 0 - DecVal(Tail(tok)) ELSE DecVal(tok)

\* ------------------------------------------------------------ notebook data
\* Cell "Obtaining the Concept ID": the id printed by the cell.
ConceptId == "C2408750690-LPCLOUD"
\* Cell "temporal bound": start_date.strftime + ',' + end_date.strftime.
TemporalStr == "2022-09-03T00:00:00Z,2022-09-03T23:23:59Z"
\* str(lon) + ',' + str(lat)
PointStr == "-62.1123,-39.89402"
\* ','.join(map(str, bound))
BoundStr == "-62.1123,-39.89402,-61.70801,-39.57769"
\* The multipart upload of the polygon search: (file name, geojson, mime type).
GeoJson == [shapefile |-> <<"isla_gaviota.geojson", "polygon.geometry.to_json()", "application/geo+json">>]
\* page_size = 2000 # CMR page size limit
PageSize == 2000

Kinds == <<"point", "bounding_box", "polygon">>

\* CmrParam with the bounding box cell still carrying the point of the cell
\* it was copied from.
CmrParamCopied(kind, concept, psize, pnum, temporal) ==
    LET common == [collection_concept_id |-> concept, page_size |-> psize,
                   page_num |-> pnum, temporal |-> temporal]
    IN  CASE kind = "point" -> common @@ ("point" :> PointStr)
          [] kind = "bounding_box" ->
                common @@ ("point" :> PointStr) @@ ("bounding_box[]" :> BoundStr)
          [] kind = "polygon" -> common @@ ("simplify-shapefile" :> "true")

\* cmr_param of the three search loops, and the files= argument of the POST.
CmrParam(kind, concept, psize, pnum, temporal) ==
    LET common == [collection_concept_id |-> concept, page_size |-> psize,
                   page_num |-> pnum, temporal |-> temporal]
    IN  CASE kind = "point" -> common @@ ("point" :> PointStr)
          [] kind = "bounding_box" -> common @@ ("bounding_box[]" :> BoundStr)
          [] kind = "polygon" -> common @@ ("simplify-shapefile" :> "true")

PostFiles(kind) == IF kind = "polygon" THEN GeoJson ELSE <<>>

\* ------------------------------------------------ granule search responses
\* hrefs of the granule links a CMR entry may carry.
HrefRfl == <<"h", "t", "t", "p", "s", ":", "/", "/", "d", "/", "E", "_", "R", "F", "L", "_", "1", ".", "n", "c">>
HrefRflDmrpp == <<"h", "t", "t", "p", "s", ":", "/", "/", "d", "/", "E", "_", "R", "F", "L", "_", "1", ".", "n", "c", ".", "d", "m", "r", "p", "p">>
HrefUncert == <<"h", "t", "t", "p", "s", ":", "/", "/", "d", "/", "E", "_", "R", "F", "L", "U", "N", "C", "E", "R", "T", "_", "1", ".", "n", "c">>
HrefMask == <<"h", "t", "t", "p", "s", ":", "/", "/", "d", "/", "E", "_", "M", "A", "S", "K", "_", "1", ".", "n", "c">>
HrefS3 == <<"s", "3", ":", "/", "/", "d", "/", "E", "_", "R", "F", "L", "_", "1", ".", "n", "c">>
HrefPng == <<"h", "t", "t", "p", "s", ":", "/", "/", "d", "/", "E", "_", "R", "F", "L", "_", "1", ".", "p", "n", "g">>
HrefHttp == <<"h", "t", "t", "p", ":", "/", "/", "d", "/", "E", "_", "M", "A", "S", "K", "_", "1", ".", "n", "c">>
HrefComma == <<"h", "t", "t", "p", "s", ":", "/", "/", "d", "/", "a", ",", "b", "/", "E", "_", "R", "F", "L", "_", "2", ".", "n", "c">>

\* Ring strings of an entry's 'polygons': "lat lon lat lon ...".
RingA == <<"1", " ", "2", " ", "3", " ", "4", " ", "5", " ", "6">>
RingB == <<"-", "1", " ", "2", " ", "3", " ", "4", " ", "5", " ", "6", " ", "7">>

Link(h) == [href |-> h]

\* Entries of response.json()['feed']['entry']: dictionaries, so a key may be
\* missing.
GFull == [title |-> "g_full", cloud_cover |-> "82", polygons |-> << <<RingA>> >>,
          links |-> <<Link(HrefRfl), Link(HrefRflDmrpp), Link(HrefUncert), Link(HrefMask)>>]
GOther == [title |-> "g_other", cloud_cover |-> "5", polygons |-> << <<RingB>>, <<RingA, RingB>> >>,
           links |-> <<Link(HrefPng), Link(HrefHttp), Link(HrefComma)>>]
GNoUrls == [title |-> "g_nourls", cloud_cover |-> "0", polygons |-> << <<RingA>> >>,
            links |-> <<Link(HrefS3), Link(HrefRflDmrpp)>>]
GNoPoly == [title |-> "g_nopoly", cloud_cover |-> "10",
            links |-> <<Link(HrefS3), Link(HrefMask)>>]
GNoTitle == [cloud_cover |-> "33", polygons |-> << <<RingA>> >>,
             links |-> <<Link(HrefMask)>>]
GNoCloud == [title |-> "g_nocloud", polygons |-> << <<RingA>> >>,
             links |-> <<Link(HrefRfl)>>]
GNoLinks == [title |-> "g_nolinks", cloud_cover |-> "7", polygons |-> << <<RingA>> >>]

Entries == {GFull, GOther, GNoUrls, GNoPoly, GNoTitle, GNoCloud, GNoLinks}

\* What can go wrong with one POST: requests.post raises, response.json()
\* raises, or the JSON has no ['feed']['entry'].
FaultKinds == {"ConnectionError", "JSONDecodeError", "KeyError_feed"}

Min(a, b) == IF a < b THEN a ELSE b

\* The CMR server: it holds the granules matching the query in a fixed order
\* and serves page page_num of them, per_page (at most page_size) to a page;
\* the request for page fault_at, if any, fails with fault_kind.  An endless
\* server has a non-empty page for every page number (its catalogue repeats).
PagesOf(n, per) == (n + per - 1) \div per

Servers ==
    { [catalogue |-> c, per_page |-> pp, fault_at |-> fa, fault_kind |-> fk,
       endless |-> en] :
        c \in UNION {[1..n -> Entries] : n \in 0..MaxGranules},
        pp \in 1..MaxPerPage, fa \in 0..(MaxGranules + 1),
        fk \in FaultKinds \cup {"none"}, en \in BOOLEAN }

\* One server per distinguishable behaviour.
Canonical(sv) ==
    /\ sv.per_page <= IF Len(sv.catalogue) = 0 THEN 1 ELSE Len(sv.catalogue)
    /\ sv.endless => Len(sv.catalogue) > 0
    /\ ~sv.endless => sv.fault_at <= PagesOf(Len(sv.catalogue), sv.per_page) + 1
    /\ (sv.fault_at = 0) <=> (sv.fault_kind = "none")

ServerResponse(sv, req) ==
    LET n == req.data.page_num
        size == Min(req.data.page_size, sv.per_page)
        lo == (n - 1) * size + 1
        hi == Min(n * size, Len(sv.catalogue))
    IN  IF n = sv.fault_at THEN [kind |-> sv.fault_kind, entry |-> <<>>]
        ELSE IF sv.endless
        THEN [kind |-> "json",
              entry |-> [i \in 1..size |->
                            sv.catalogue[((lo + i - 2) % Len(sv.catalogue)) + 1]]]
        ELSE [kind |-> "json", entry |-> SubSeq(sv.catalogue, lo, hi)]

\* ------------------------------------------------------ search loop body
\* granule_poly = '' and the shapely geometries.
EmptyStr == [str |-> <<>>]
Polygon(shell) == [shell |-> shell]
MultiPolygon(polys) == [geoms |-> polys]

\* i = iter(poly[0].split(" ")); ltln = list(map(" ".join, zip(i, i)))
Ltln(ring) ==
    LET toks == Split(ring, " ")
    IN  [k \in 1..(Len(toks) \div 2) |-> JoinPair(toks[2 * k - 1], toks[2 * k])]

\* [[float(p.split(" ")[1]), float(p.split(" ")[0])] for p in ltln]
ShellOk(ring) ==
    \A k \in 1..Len(Ltln(ring)) :
        LET p == Split(Ltln(ring)[k], " ")
        IN  Len(p) >= 2 /\ FloatOk(p[2]) /\ FloatOk(p[1])
\* Shell keeping each pair in the order of the ring string, (latitude, longitude).
ShellLatLon(ring) ==
    [k \in 1..Len(Ltln(ring)) |->
        LET p == Split(Ltln(ring)[k], " ") IN <<FloatOf(p[1]), FloatOf(p[2])>>]
Shell(ring) ==
    [k \in 1..Len(Ltln(ring)) |->
        LET p == Split(Ltln(ring)[k], " ") IN <<FloatOf(p[2]), FloatOf(p[1])>>]

\* The 'polygons' branch: one Polygon per entry of polygons, from poly[0].
PolygonsErr(polygons) ==
    IF \E k \in 1..Len(polygons) : Len(polygons[k]) = 0 THEN "IndexError"
    ELSE IF \E k \in 1..Len(polygons) : ~ShellOk(polygons[k][1]) THEN "ValueError"
    ELSE "none"
GranulePoly(g) ==
    IF "polygons" \in DOMAIN g
    THEN MultiPolygon([k \in 1..Len(g.polygons) |-> Polygon(Shell(g.polygons[k][1]))])
    ELSE EmptyStr

\* KeepHref without the .dmrpp exclusion.
KeepHrefNoDmrpp(h) ==
    /\ Contains(h, <<"h", "t", "t", "p", "s">>)
    /\ Contains(h, <<".", "n", "c">>)

\* 'https' in href and '.nc' in href and '.dmrpp' not in href
KeepHref(h) ==
    /\ Contains(h, <<"h", "t", "t", "p", "s">>)
    /\ Contains(h, <<".", "n", "c">>)
    /\ ~Contains(h, <<".", "d", "m", "r", "p", "p">>)

\* [x['href'] for x in g['links'] if ...]
RECURSIVE GranuleUrlsFrom(_, _)
GranuleUrlsFrom(links, i) ==
    IF i > Len(links) THEN <<>>
    ELSE (IF KeepHref(links[i].href) THEN <<links[i].href>> ELSE <<>>)
         \o GranuleUrlsFrom(links, i + 1)
GranuleUrls(g) == GranuleUrlsFrom(g.links, 1)

\* The keys the loop body reads before anything is appended, in the order it
\* reads them; the polygon search also reads g['title'].
GranuleErr(kind, g) ==
    IF kind = "polygon" /\ "title" \notin DOMAIN g THEN "KeyError_title"
    ELSE IF "cloud_cover" \notin DOMAIN g THEN "KeyError_cloud_cover"
    ELSE IF "polygons" \in DOMAIN g /\ PolygonsErr(g.polygons) # "none"
         THEN PolygonsErr(g.polygons)
    ELSE IF "links" \notin DOMAIN g THEN "KeyError_links"
    ELSE "none"

\* [granule_urls, cloud_cover, granule_poly]
GranuleItem(g) == <<GranuleUrls(g), g.cloud_cover, GranulePoly(g)>>

\* for g in granules: ... granule_arr.append(...); an exception leaves what
\* was appended before it.
RECURSIVE ProcessPage(_, _, _, _)
ProcessPage(kind, granules, i, arr) ==
    IF i > Len(granules) THEN [err |-> "none", arr |-> arr]
    ELSE IF GranuleErr(kind, granules[i]) # "none"
         THEN [err |-> GranuleErr(kind, granules[i]), arr |-> arr]
    ELSE ProcessPage(kind, granules, i + 1, Append(arr, GranuleItem(granules[i])))

\* ----------------------------------------------------------- results table
\* A table is a sequence of rows; idx is the row's index label.  A missing
\* value (NaN) is the one-element sequence NaN, which no string equals.
NaN == <<"<NaN>">>
IsNaN(v) == v = NaN

\* pd.DataFrame(granule_arr, columns=["asset_url", "cloud_cover", "granule_poly"])
DataFrame(arr) ==
    [k \in 1..Len(arr) |->
        [idx |-> k - 1, asset_url |-> arr[k][1], cloud_cover |-> arr[k][2],
         granule_poly |-> arr[k][3]]]

\* DropEmptyGeometry that drops nothing.
DropNothing(df) == df

\* cmr_results_df[cmr_results_df['granule_poly'] != '']
RECURSIVE DropEmptyGeometry(_)
DropEmptyGeometry(df) ==
    IF df = <<>> THEN <<>>
    ELSE (IF Head(df).granule_poly # EmptyStr THEN <<Head(df)>> ELSE <<>>)
         \o DropEmptyGeometry(Tail(df))

\* ExplodeRow that keeps the first element of the list only.
ExplodeRowFirst(r) ==
    IF r.asset_url = <<>> THEN <<[r EXCEPT !.asset_url = NaN]>>
    ELSE <<[r EXCEPT !.asset_url = r.asset_url[1]]>>

\* One row of explode('asset_url'): a row per element of the list, the other
\* columns and the index label repeated; an empty list gives one NaN row.
ExplodeRow(r) ==
    IF r.asset_url = <<>> THEN <<[r EXCEPT !.asset_url = NaN]>>
    ELSE [j \in 1..Len(r.asset_url) |-> [r EXCEPT !.asset_url = r.asset_url[j]]]

RECURSIVE Explode(_)
Explode(df) == IF df = <<>> THEN <<>> ELSE ExplodeRow(Head(df)) \o Explode(Tail(df))

\* asset_url.str.split('/', n=-1).str.get(-1); NaN stays NaN.
AssetName(url) ==
    IF IsNaN(url) THEN NaN ELSE LET parts == Split(url, "/") IN parts[Len(parts)]

\* cmr_results_df.insert(0, 'asset_name', ...)
InsertAssetName(df) ==
    [k \in 1..Len(df) |->
        [idx |-> df[k].idx, asset_name |-> AssetName(df[k].asset_url),
         asset_url |-> df[k].asset_url, cloud_cover |-> df[k].cloud_cover,
         granule_poly |-> df[k].granule_poly]]

\* The cell "creating a pandas dataframe".
ResultsTable(arr) == InsertAssetName(Explode(DropEmptyGeometry(DataFrame(arr))))

\* AssetMask matching 'RFL' without the underscores.
AssetMaskRfl(name) ==
    IF IsNaN(name) THEN FALSE
    ELSE Contains(name, <<"R", "F", "L">>) \/ Contains(name, <<"M", "A", "S", "K">>)

\* asset_name.str.contains('_RFL_') | asset_name.str.contains('MASK'); the
\* mask of a NaN name is NaN, which the boolean indexing takes as False.
AssetMask(name) ==
    IF IsNaN(name) THEN FALSE
    ELSE Contains(name, <<"_", "R", "F", "L", "_">>) \/ Contains(name, <<"M", "A", "S", "K">>)

RECURSIVE FilterAssets(_)
FilterAssets(df) ==
    IF df = <<>> THEN <<>>
    ELSE (IF AssetMask(Head(df).asset_name) THEN <<Head(df)>> ELSE <<>>)
         \o FilterAssets(Tail(df))

\* cmr_results_df[:-1]
DropLastRow(df) == IF df = <<>> THEN <<>> ELSE SubSeq(df, 1, Len(df) - 1)

\* drop_duplicates(subset=['asset_url']): the first row of each URL is kept.
DropDuplicates(df) ==
    LET first(k) == \A j \in 1..(k - 1) : df[j].asset_url # df[k].asset_url
        F[k \in 0..Len(df)] ==
            IF k = 0 THEN <<>>
            ELSE IF first(k) THEN Append(F[k - 1], df[k]) ELSE F[k - 1]
    IN  F[Len(df)]

\* The csv writer's field (QUOTE_MINIMAL, one column): a value holding the
\* delimiter, a quote or a line break is quoted, quotes inside doubled; an
\* empty or missing value, alone on its line, is written as "".
DQuote == "\""
CsvSpecial == {",", DQuote, "\n", "\r"}
RECURSIVE DoubleQuotes(_)
DoubleQuotes(s) ==
    IF s = <<>> THEN <<>>
    ELSE (IF Head(s) = DQuote THEN <<DQuote, DQuote>> ELSE <<Head(s)>>) \o DoubleQuotes(Tail(s))
CsvField(v) ==
    IF IsNaN(v) \/ v = <<>> THEN <<DQuote, DQuote>>
    ELSE IF \E i \in 1..Len(v) : v[i] \in CsvSpecial
         THEN <<DQuote>> \o DoubleQuotes(v) \o <<DQuote>>
    ELSE v

\* to_csv(path, columns=['asset_url'], index=False, header=False): the lines
\* of the file.
ToCsv(df) == [k \in 1..Len(df) |-> CsvField(df[k].asset_url)]

\* SavedFrame writing the frame the line above it built.
SavedFrameDeduped(df, dfs) == dfs

\* The frame whose to_csv the save cell calls.
SavedFrame(df, dfs) == df

\* ------------------------------------- the reflectance notebook: its data
\* Sizes of the granule file the notebook opens.
NumBands == 3
NumDowntrack == 2
NumCrosstrack == 2
NumLat == 2
NumLon == 2

\* A float of the file is <<v>> or the missing value FNaN.  Reflectance is
\* counted in hundredths (<<-1>> is -0.01, <<100>> is 1.0), wavelengths in nm.
FNaN == <<>>
IsFNaN(x) == x = <<>>
F(v) == <<v>>
Unit == 100

\* sensor_band_parameters/wavelengths: any sequence over WaveValues.
WaveValues == {FNaN, F(465), F(475), F(640), F(850)}
Waves == [1..NumBands -> WaveValues]
WaveCycle == <<470, 560, 650, 850>>
Waves0 == [b \in 1..NumBands |-> F(WaveCycle[((b - 1) % Len(WaveCycle)) + 1])]

\* reflectance[downtrack, crosstrack, bands]: image k gives every pixel its
\* own spectrum out of ReflCycle; image 7 has band 1 flagged in every pixel,
\* image 8 is missing everywhere.
Pixels == (1..NumDowntrack) \X (1..NumCrosstrack)
ReflCycle == <<F(20), F(-1), FNaN, F(250), F(0), F(-5), F(100)>>
ImageIds == 0..8
Image(k) ==
    [p \in Pixels |->
        [b \in 1..NumBands |->
            IF k = 8 THEN FNaN
            ELSE IF k = 7 THEN (IF b = 1 THEN F(-1) ELSE F(20 + 10 * p[2]))
            ELSE ReflCycle[((k + (p[1] - 1) * NumCrosstrack + (p[2] - 1)
                             + 2 * (b - 1)) % Len(ReflCycle)) + 1]]]

\* location/glt_y, glt_x: for each cell of the geographic grid the
\* (downtrack, crosstrack) of its source pixel, or NoEntry.  GLT (s, m) sends
\* the cells to the pixels in turn, starting at pixel s, and leaves every
\* third cell from m on without an entry (m = 3: none).
Cells == (1..NumLat) \X (1..NumLon)
NoEntry == <<0, 0>>
GltIds == (0..(NumDowntrack * NumCrosstrack - 1)) \X (0..3)
Glt(id) ==
    [c \in Cells |->
        LET n == (c[1] - 1) * NumLon + (c[2] - 1)
            q == (n + id[1]) % (NumDowntrack * NumCrosstrack)
        IN  IF id[2] < 3 /\ (n + id[2]) % 3 = 0 THEN NoEntry
            ELSE <<(q \div NumCrosstrack) + 1, (q % NumCrosstrack) + 1>>]

\* The granule files the notebook is run on: every wavelength sequence with
\* one image and GLT, and every image and GLT with one wavelength sequence.
NcFile(w, k, id) == [reflectance |-> Image(k), wavelengths |-> w, glt |-> Glt(id)]
NcFiles ==
    {NcFile(w, 0, <<0, 3>>) : w \in Waves}
        \cup {NcFile(Waves0, k, id) : k \in ImageIds, id \in GltIds}
NoFile == [reflectance |-> <<>>, wavelengths |-> <<>>, glt |-> <<>>]

\* ------------------------------------ the reflectance notebook: functions
\* A dataset: the reflectance array, the wavelengths coordinate, and the
\* names of its dimensions.
NoDataset == [kind |-> "none", dims |-> <<>>, reflectance |-> <<>>, wavelengths |-> <<>>]

\* xr.merge([refl, loc])
Merged(f) ==
    [kind |-> "xarray", dims |-> <<"downtrack", "crosstrack", "bands">>,
     reflectance |-> f.reflectance, wavelengths |-> <<>>]

\* ds.assign_coords({... **wvl.variables})
AssignCoords(d, f) == [d EXCEPT !.wavelengths = f.wavelengths]

\* Masking every negative value, not only the flag.
MaskedNegative(refl) ==
    [p \in DOMAIN refl |->
        [b \in 1..Len(refl[p]) |->
            IF ~IsFNaN(refl[p][b]) /\ refl[p][b][1] < 0 THEN FNaN ELSE refl[p][b]]]

\* data[data == -0.01] = np.nan, on the array the dataset holds.
Masked(refl) ==
    [p \in DOMAIN refl |->
        [b \in 1..Len(refl[p]) |->
            IF refl[p][b] = F(-1) THEN FNaN ELSE refl[p][b]]]

\* abs(wavelengths - t); NaN stays NaN.
AbsDiff(w, t) ==
    [b \in 1..Len(w) |->
        IF IsFNaN(w[b]) THEN FNaN
        ELSE F(IF w[b][1] >= t THEN w[b][1] - t ELSE t - w[b][1])]

\* nanargmin taking the last of equal minima.
NanArgMinLast(a) ==
    IF \A i \in 1..Len(a) : IsFNaN(a[i]) THEN [err |-> "ValueError", idx |-> 0]
    ELSE LET best[k \in 0..Len(a)] ==
                 IF k = 0 THEN 0
                 ELSE IF IsFNaN(a[k]) THEN best[k - 1]
                 ELSE IF best[k - 1] = 0 THEN k
                 ELSE IF a[k][1] <= a[best[k - 1]][1] THEN k ELSE best[k - 1]
         IN  [err |-> "none", idx |-> best[Len(a)] - 1]

\* np.nanargmin(a): the 0-based index of the first minimum with NaN left
\* out; ValueError when every element is NaN.
NanArgMin(a) ==
    IF \A i \in 1..Len(a) : IsFNaN(a[i]) THEN [err |-> "ValueError", idx |-> 0]
    ELSE LET best[k \in 0..Len(a)] ==
                 IF k = 0 THEN 0
                 ELSE IF IsFNaN(a[k]) THEN best[k - 1]
                 ELSE IF best[k - 1] = 0 THEN k
                 ELSE IF a[k][1] < a[best[k - 1]][1] THEN k ELSE best[k - 1]
         IN  [err |-> "none", idx |-> best[Len(a)] - 1]

\* np.nanargmin(abs(ds['wavelengths'].values - t))
NearestBand(d, t) == NanArgMin(AbsDiff(d.wavelengths, t))

\* ds['reflectance'].sel(bands=band).data: the band's plane of the array.
BandPlane(d, band) == [p \in DOMAIN d.reflectance |-> d.reflectance[p][band + 1]]

\* np.nanmean(array), as the sum and the count of the present values.
RECURSIVE NanSum(_, _)
NanSum(a, S) ==
    IF S = {} THEN 0
    ELSE LET p == CHOOSE q \in S : TRUE
         IN  (IF IsFNaN(a[p]) THEN 0 ELSE a[p][1]) + NanSum(a, S \ {p})
NanCount(a) == Cardinality({p \in DOMAIN a : ~IsFNaN(a[p])})

\* gamma = math.log(0.2)/math.log(np.nanmean(array)): positive for a mean
\* in (0, 1), negative for a mean above 1, NaN for the NaN mean of a plane
\* with no value; math.log raises ValueError for a mean <= 0 and the
\* division raises ZeroDivisionError for a mean of 1.
Gamma(a) ==
    LET n == NanCount(a)
        sum == NanSum(a, DOMAIN a)
    IN  IF n = 0 THEN "nan"
        ELSE IF sum <= 0 THEN "ValueError"
        ELSE IF sum = Unit * n THEN "ZeroDivisionError"
        ELSE IF sum < Unit * n THEN "pos" ELSE "neg"

\* Whether gamma can come out as an odd whole number (1 for a mean of 0.2,
\* -1 for a mean of 5): the rounding of the mean and the logarithms decides.
WholeGamma(a) ==
    IF NanCount(a) > 0
       /\ (5 * NanSum(a, DOMAIN a) = Unit * NanCount(a)
           \/ NanSum(a, DOMAIN a) = 5 * Unit * NanCount(a))
    THEN BOOLEAN ELSE {FALSE}

\* np.power(x, gamma), by where the result lies: "nan", "neg" (below 0),
\* "zero", "frac" (between 0 and 1), "one", "big" (above 1), "inf".
Power(x, g, whole) ==
    IF g = "nan" THEN (IF x = F(Unit) THEN "one" ELSE "nan")
    ELSE IF IsFNaN(x) THEN "nan"
    ELSE IF x[1] < 0 THEN (IF whole THEN "neg" ELSE "nan")
    ELSE IF x[1] = 0 THEN (IF g = "pos" THEN "zero" ELSE "inf")
    ELSE IF x[1] = Unit THEN "one"
    ELSE IF (x[1] < Unit) <=> (g = "pos") THEN "frac" ELSE "big"

\* .clip(0,1); NaN stays NaN.
Clip(c) == IF c = "neg" THEN "zero" ELSE IF c \in {"big", "inf"} THEN "one" ELSE c

\* np.nan_to_num with its default nan=0.0.
NanToNumDefault(c) == IF c = "nan" THEN "zero" ELSE c

\* np.nan_to_num(scaled, nan = 1)
NanToNum(c) == IF c = "nan" THEN "one" ELSE c

\* gamma_adjust(ds, band): the scaled plane, or the exception raised.
GammaAdjust(d, band, whole) ==
    LET array == BandPlane(d, band)
        gamma == Gamma(array)
    IN  IF gamma \in {"ValueError", "ZeroDivisionError"}
        THEN [err |-> gamma, scaled |-> <<>>]
        ELSE [err |-> "none",
              scaled |-> [p \in DOMAIN array |-> NanToNum(Clip(Power(array[p], gamma, whole)))]]

\* gamma_adjust clipping the band's plane where it lies (clip(0, 1, out=array)).
AfterGammaAdjustInPlace(d, band) ==
    [d EXCEPT !.reflectance =
        [p \in DOMAIN d.reflectance |->
            [d.reflectance[p] EXCEPT ![band + 1] =
                IF IsFNaN(@) THEN @ ELSE IF @[1] < 0 THEN F(0)
                ELSE IF @[1] > Unit THEN F(Unit) ELSE @]]]

\* The dataset after gamma_adjust(ds, band): np.power, clip and nan_to_num
\* each return a new array, so the plane taken from the dataset is only read.
AfterGammaAdjust(d, band) == d

\* Ortho reading the two index arrays the other way round.
OrthoTransposed(f) ==
    [kind |-> "xarray", dims |-> <<"latitude", "longitude", "bands">>,
     reflectance |->
        [c \in DOMAIN f.glt |->
            IF f.glt[c] = NoEntry THEN [b \in 1..Len(f.wavelengths) |-> FNaN]
            ELSE f.reflectance[<<f.glt[c][2], f.glt[c][1]>>]],
     wavelengths |-> f.wavelengths]

\* emit_xarray(fp, ortho=True): every cell of the GLT's grid gets the
\* spectrum of the pixel its entry names; a cell without an entry is missing
\* in every band.
Ortho(f) ==
    [kind |-> "xarray", dims |-> <<"latitude", "longitude", "bands">>,
     reflectance |->
        [c \in DOMAIN f.glt |->
            IF f.glt[c] = NoEntry THEN [b \in 1..Len(f.wavelengths) |-> FNaN]
            ELSE f.reflectance[f.glt[c]]],
     wavelengths |-> f.wavelengths]

\* ---------------------------------------------------------- the notebook
VARIABLES
    pc,               \* the cell (or the place in the running search cell) to run next
    search,           \* how many search cells have been started (index into Kinds)
    concept_id, temporal_str,
    page_num, page_size, granule_arr,
    cmr_results_df, cmr_results_dfs,
    file,             \* ../data/emit_asset_urls.txt
    error,            \* the exception that ended the run, or "none"
    server,           \* the CMR server's side of the searches
    inflight,         \* granule requests sent and not yet answered
    requests,         \* the granule requests of the running search, in order
    received,         \* the responses to them, in order
    found             \* granule_arr and outcome of each search that has ended

\* The reflectance notebook.
VARIABLES
    rpc,              \* the cell to run next
    bound,            \* the names bound in the kernel
    ncfile,           \* the granule file at fp
    ds, ds_geo,       \* the datasets bound to these names
    bsel,             \* b850, b650, b560, b470
    rgb,              \* r, g, b
    rerr,             \* the exception that ended the run, or "none"
    ran               \* the cells that have run to their end, in order

cmrVars == <<pc, search, concept_id, temporal_str, page_num, page_size, granule_arr,
             cmr_results_df, cmr_results_dfs, file, error, server, inflight,
             requests, received, found>>
rflVars == <<rpc, bound, ncfile, ds, ds_geo, bsel, rgb, rerr, ran>>
vars == <<cmrVars, rflVars>>

\* The reflectance notebook before its first cell, on granule file f.
RflStart(f) ==
    /\ rpc = "open_nc"
    /\ bound = {}
    /\ ncfile = f
    /\ ds = NoDataset
    /\ ds_geo = NoDataset
    /\ bsel = [b850 |-> 0, b650 |-> 0, b560 |-> 0, b470 |-> 0]
    /\ rgb = <<>>
    /\ rerr = "none"
    /\ ran = <<>>

\* The search notebook before its first cell, against server sv.
CmrStart(sv) ==
    /\ pc = "cell_doi"
    /\ search = 0
    /\ concept_id = ""
    /\ temporal_str = ""
    /\ page_num = 0
    /\ page_size = 0
    /\ granule_arr = <<>>
    /\ cmr_results_df = <<>>
    /\ cmr_results_dfs = <<>>
    /\ file = [exists |-> FALSE, lines |-> <<>>]
    /\ error = "none"
    /\ server = sv
    /\ inflight = <<>>
    /\ requests = <<>>
    /\ received = <<>>
    /\ found = <<>>

\* A run of the search notebook; the reflectance notebook is not run.
Init ==
    /\ \E sv \in {x \in Servers : Canonical(x)} : CmrStart(sv)
    /\ RflStart(NoFile)

\* concept_id = requests.get(doisearch).json()['feed']['entry'][0]['id']
GetConceptId ==
    /\ pc = "cell_doi"
    /\ concept_id' = ConceptId
    /\ pc' = "cell_temporal"
    /\ UNCHANGED <<rflVars, search, temporal_str, page_num, page_size, granule_arr, cmr_results_df,
                   cmr_results_dfs, file, error, server, inflight, requests, received, found>>

\* temporal_str = start_date.strftime(dt_format) + ',' + end_date.strftime(dt_format)
SetTemporal ==
    /\ pc = "cell_temporal"
    /\ temporal_str' = TemporalStr
    /\ pc' = "cell_search"
    /\ UNCHANGED <<rflVars, search, concept_id, page_num, page_size, granule_arr, cmr_results_df,
                   cmr_results_dfs, file, error, server, inflight, requests, received, found>>

\* The head of a search cell: page_num = 1; page_size = 2000; granule_arr = [].
StartSearch ==
    /\ \/ pc = "cell_search"
       \/ pc = "done" /\ search < Len(Kinds)
    /\ search' = search + 1
    /\ page_num' = 1
    /\ page_size' = PageSize
    /\ granule_arr' = <<>>
    /\ requests' = <<>>
    /\ received' = <<>>
    /\ pc' = "post"
    /\ UNCHANGED <<rflVars, concept_id, temporal_str, cmr_results_df, cmr_results_dfs, file, error,
                   server, inflight, found>>

\* PostRequest that does not wait for the response: the request for the next
\* page is sent while this one is still outstanding.
PostRequestPipelined ==
    /\ pc = "post"
    /\ Len(requests) < MaxRequests
    /\ LET req == [data |-> CmrParam(Kinds[search], concept_id, page_size, page_num, temporal_str),
                   files |-> PostFiles(Kinds[search])]
       IN  /\ requests' = Append(requests, req)
           /\ inflight' = Append(inflight, req)
    /\ page_num' = page_num + 1
    /\ pc' = IF Len(inflight) >= 1 THEN "await" ELSE "post"
    /\ UNCHANGED <<rflVars, search, concept_id, temporal_str, page_size, granule_arr,
                   cmr_results_df, cmr_results_dfs, file, error, server, received, found>>

\* cmr_param = {...}; response = requests.post(granulesearch, data=cmr_param[, files=geojson])
PostRequest ==
    /\ pc = "post"
    /\ Len(requests) < MaxRequests
    /\ LET req == [data |-> CmrParam(Kinds[search], concept_id, page_size, page_num, temporal_str),
                   files |-> PostFiles(Kinds[search])]
       IN  /\ requests' = Append(requests, req)
           /\ inflight' = Append(inflight, req)
    /\ pc' = "await"
    /\ UNCHANGED <<rflVars, search, concept_id, temporal_str, page_num, page_size, granule_arr,
                   cmr_results_df, cmr_results_dfs, file, error, server, received, found>>

\* AfterPage without the break: an empty page is followed by the next request.
AfterPageNoBreak(err, granules) == IF err # "none" THEN "error" ELSE "post"

\* AfterPage with the exception swallowed: the loop goes on as if the page
\* had been read.
AfterPageSwallow(err, granules) == IF granules = <<>> THEN "done" ELSE "post"

\* AfterPage that leaves the loop after the first page, empty or not.
AfterPageStopsEarly(err, granules) == IF err # "none" THEN "error" ELSE "done"

\* Where the run goes after the loop body: on to the next request, out of the
\* loop by break, or out of the cell by the exception.
AfterPage(err, granules) ==
    IF err # "none" THEN "error" ELSE IF granules = <<>> THEN "done" ELSE "post"

\* ReceiveResponse without page_num += 1: the next request asks for the
\* same page again.
ReceiveResponseSamePage ==
    /\ pc = "await"
    /\ inflight # <<>>
    /\ LET resp == ServerResponse(server, Head(inflight))
           out == IF resp.kind # "json" THEN [err |-> resp.kind, arr |-> granule_arr]
                  ELSE ProcessPage(Kinds[search], resp.entry, 1, granule_arr)
           to == AfterPage(out.err, resp.entry)
       IN  /\ received' = Append(received, resp)
           /\ inflight' = Tail(inflight)
           /\ granule_arr' = out.arr
           /\ error' = out.err
           /\ pc' = to
           /\ page_num' = page_num
           /\ found' = IF to = "post" THEN found
                       ELSE Append(found, [arr |-> out.arr, err |-> out.err])
    /\ UNCHANGED <<rflVars, search, concept_id, temporal_str, page_size, cmr_results_df,
                   cmr_results_dfs, file, server, requests>>

\* granules = response.json()['feed']['entry']; if granules: ... page_num += 1
\* else: break
ReceiveResponse ==
    /\ pc = "await"
    /\ inflight # <<>>
    /\ LET resp == ServerResponse(server, Head(inflight))
           out == IF resp.kind # "json" THEN [err |-> resp.kind, arr |-> granule_arr]
                  ELSE ProcessPage(Kinds[search], resp.entry, 1, granule_arr)
           to == AfterPage(out.err, resp.entry)
       IN  /\ received' = Append(received, resp)
           /\ inflight' = Tail(inflight)
           /\ granule_arr' = out.arr
           /\ error' = out.err
           /\ pc' = to
           /\ page_num' = IF to = "post" THEN page_num + 1 ELSE page_num
           /\ found' = IF to = "post" THEN found
                       ELSE Append(found, [arr |-> out.arr, err |-> out.err])
    /\ UNCHANGED <<rflVars, search, concept_id, temporal_str, page_size, cmr_results_df,
                   cmr_results_dfs, file, server, requests>>

\* The cell "creating a pandas dataframe", run after the last search cell.
BuildTable ==
    /\ pc = "done"
    /\ search = Len(Kinds)
    /\ cmr_results_df' = ResultsTable(granule_arr)
    /\ pc' = "cell_filter"
    /\ UNCHANGED <<rflVars, search, concept_id, temporal_str, page_num, page_size, granule_arr,
                   cmr_results_dfs, file, error, server, inflight, requests, received, found>>

\* The asset filter cell left out: the table goes to the file as built.
FilterTableSkipped ==
    /\ pc = "cell_filter"
    /\ cmr_results_df' = cmr_results_df
    /\ pc' = "cell_save"
    /\ UNCHANGED <<rflVars, search, concept_id, temporal_str, page_num, page_size, granule_arr,
                   cmr_results_dfs, file, error, server, inflight, requests, received, found>>

\* The asset filter cell.
FilterTable ==
    /\ pc = "cell_filter"
    /\ cmr_results_df' = FilterAssets(cmr_results_df)
    /\ pc' = "cell_save"
    /\ UNCHANGED <<rflVars, search, concept_id, temporal_str, page_num, page_size, granule_arr,
                   cmr_results_dfs, file, error, server, inflight, requests, received, found>>

\* The save cell.
SaveUrls ==
    /\ pc = "cell_save"
    /\ cmr_results_dfs' = DropDuplicates(DropLastRow(cmr_results_df))
    /\ file' = [exists |-> TRUE,
                lines |-> ToCsv(SavedFrame(cmr_results_df, DropDuplicates(DropLastRow(cmr_results_df))))]
    /\ pc' = "end"
    /\ UNCHANGED <<rflVars, search, concept_id, temporal_str, page_num, page_size, granule_arr,
                   cmr_results_df, error, server, inflight, requests, received, found>>

Next ==
    \/ GetConceptId
    \/ SetTemporal
    \/ StartSearch
    \/ PostRequest
    \/ ReceiveResponse
    \/ BuildTable
    \/ FilterTable
    \/ SaveUrls

Spec == Init /\ [][Next]_vars

\* ------------------------------------- the reflectance notebook: its cells
\* A cell that reads the names in reads, raises exc (or "none") and then
\* binds the names in binds; a read of an unbound name raises NameError.
Cell(at, to, reads, binds, exc) ==
    /\ rpc = at
    /\ LET err == IF reads \subseteq bound THEN exc ELSE "NameError"
       IN  /\ rerr' = err
           /\ rpc' = IF err = "none" THEN to ELSE "error"
           /\ bound' = IF err = "none" THEN bound \cup binds ELSE bound
           /\ ran' = IF err = "none" THEN Append(ran, at) ELSE ran

\* del a; del b; ...: the names go one by one, and the first one that is
\* not bound raises NameError.
RECURSIVE Del(_, _)
Del(names, b) ==
    IF names = <<>> THEN [err |-> "none", bound |-> b]
    ELSE IF Head(names) \notin b THEN [err |-> "NameError", bound |-> b]
    ELSE Del(Tail(names), b \ {Head(names)})

DelCell(at, to, names) ==
    /\ rpc = at
    /\ LET out == Del(names, bound)
       IN  /\ rerr' = out.err
           /\ rpc' = IF out.err = "none" THEN to ELSE "error"
           /\ bound' = out.bound
           /\ ran' = IF out.err = "none" THEN Append(ran, at) ELSE ran

\* fp = '../data/EMIT_L2A_RFL_...nc'; ds = nc.Dataset(fp); ds.groups.keys()
OpenNc ==
    /\ Cell("open_nc", "open_refl", {}, {"fp", "ds"}, "none")
    /\ ds' = [NoDataset EXCEPT !.kind = "netCDF4"]
    /\ UNCHANGED <<cmrVars, ncfile, ds_geo, bsel, rgb>>

\* refl = xr.open_dataset(fp)
OpenRefl ==
    /\ Cell("open_refl", "open_wvl", {"fp"}, {"refl"}, "none")
    /\ UNCHANGED <<cmrVars, ncfile, ds, ds_geo, bsel, rgb>>

\* wvl = xr.open_dataset(fp,group='sensor_band_parameters')
OpenWvl ==
    /\ Cell("open_wvl", "open_loc", {"fp"}, {"wvl"}, "none")
    /\ UNCHANGED <<cmrVars, ncfile, ds, ds_geo, bsel, rgb>>

\* loc = xr.open_dataset(fp,group='location')
OpenLoc ==
    /\ Cell("open_loc", "merge", {"fp"}, {"loc"}, "none")
    /\ UNCHANGED <<cmrVars, ncfile, ds, ds_geo, bsel, rgb>>

\* ds = xr.merge([refl, loc])
Merge ==
    /\ Cell("merge", "assign_coords", {"refl", "loc"}, {"ds"}, "none")
    /\ ds' = IF rerr' = "none" THEN Merged(ncfile) ELSE ds
    /\ UNCHANGED <<cmrVars, ncfile, ds_geo, bsel, rgb>>

\* ds = ds.assign_coords({'downtrack': ..., 'crosstrack': ..., **wvl.variables})
AssignCoordsCell ==
    /\ Cell("assign_coords", "del_inputs", {"ds", "refl", "wvl"}, {"ds"}, "none")
    /\ ds' = IF rerr' = "none" THEN AssignCoords(ds, ncfile) ELSE ds
    /\ UNCHANGED <<cmrVars, ncfile, ds_geo, bsel, rgb>>

\* The first deletion cell deleting the merged dataset as well.
DelInputsAndDs == <<"refl", "wvl", "loc", "ds">>

\* The names the first deletion cell deletes, in order.
DelInputsNames == <<"refl", "wvl", "loc">>

\* del refl; del wvl; del loc
DelInputs ==
    /\ DelCell("del_inputs", "example", DelInputsNames)
    /\ UNCHANGED <<cmrVars, ncfile, ds, ds_geo, bsel, rgb>>

\* example = ds['reflectance'].sel(downtrack=660,crosstrack=370); example.hvplot...
Example ==
    /\ Cell("example", "mask_ds", {"ds"}, {"example"}, "none")
    /\ UNCHANGED <<cmrVars, ncfile, ds, ds_geo, bsel, rgb>>

\* ds['reflectance'].data[ds['reflectance'].data == -0.01] = np.nan, and the
\* plot of the masked spectrum.
MaskDs ==
    /\ Cell("mask_ds", "b850", {"ds"}, {}, "none")
    /\ ds' = IF rerr' = "none" THEN [ds EXCEPT !.reflectance = Masked(@)] ELSE ds
    /\ UNCHANGED <<cmrVars, ncfile, ds_geo, bsel, rgb>>

\* b850 = np.nanargmin(abs(ds['wavelengths'].values-850)), and the plot of
\* ds.sel(bands=b850).
B850 ==
    /\ Cell("b850", "reopen_loc", {"ds"}, {"b850"}, NearestBand(ds, 850).err)
    /\ bsel' = IF rerr' = "none" THEN [bsel EXCEPT !.b850 = NearestBand(ds, 850).idx]
               ELSE bsel
    /\ UNCHANGED <<cmrVars, ncfile, ds, ds_geo, rgb>>

\* The names the cell "loc = xr.open_dataset(fp,group='location')" binds.
ReopenLocBinds == {"loc"}

\* loc = xr.open_dataset(fp,group='location'); loc
ReopenLoc ==
    /\ Cell("reopen_loc", "del_loc_example", {"fp"}, ReopenLocBinds, "none")
    /\ UNCHANGED <<cmrVars, ncfile, ds, ds_geo, bsel, rgb>>

\* del loc; del example
DelLocExample ==
    /\ DelCell("del_loc_example", "ortho", <<"loc", "example">>)
    /\ UNCHANGED <<cmrVars, ncfile, ds, ds_geo, bsel, rgb>>

\* from emit_tools import emit_xarray; ds_geo = emit_xarray(fp, ortho=True)
OrthoCell ==
    /\ Cell("ortho", "b850_geo", {"fp"}, {"emit_xarray", "ds_geo"}, "none")
    /\ ds_geo' = IF rerr' = "none" THEN Ortho(ncfile) ELSE ds_geo
    /\ UNCHANGED <<cmrVars, ncfile, ds, bsel, rgb>>

\* b850 = np.nanargmin(abs(ds_geo['wavelengths'].values-850)), and the plots
\* of ds_geo.isel(bands=b850) and ds.sel(bands=b850).
B850Geo ==
    /\ Cell("b850_geo", "mask_geo", {"ds_geo", "ds"}, {"b850"}, NearestBand(ds_geo, 850).err)
    /\ bsel' = IF rerr' = "none" THEN [bsel EXCEPT !.b850 = NearestBand(ds_geo, 850).idx]
               ELSE bsel
    /\ UNCHANGED <<cmrVars, ncfile, ds, ds_geo, rgb>>

\* ds_geo['reflectance'].data[ds_geo['reflectance'].data ==-0.01] = np.nan
MaskGeo ==
    /\ Cell("mask_geo", "point", {"ds_geo"}, {}, "none")
    /\ ds_geo' = IF rerr' = "none" THEN [ds_geo EXCEPT !.reflectance = Masked(@)] ELSE ds_geo
    /\ UNCHANGED <<cmrVars, ncfile, ds, bsel, rgb>>

\* point = ds_geo.sel(longitude=..., latitude=..., method='nearest'), and its plot.
Point ==
    /\ Cell("point", "rgb_bands", {"ds_geo"}, {"point"}, "none")
    /\ UNCHANGED <<cmrVars, ncfile, ds, ds_geo, bsel, rgb>>

\* b650 = ...; b560 = ...; b470 = np.nanargmin(abs(ds_geo['wavelengths'].values-470))
RgbBands ==
    /\ Cell("rgb_bands", "scale", {"ds_geo"}, {"b650", "b560", "b470"},
            NearestBand(ds_geo, 650).err)
    /\ bsel' = IF rerr' = "none"
               THEN [bsel EXCEPT !.b650 = NearestBand(ds_geo, 650).idx,
                                 !.b560 = NearestBand(ds_geo, 560).idx,
                                 !.b470 = NearestBand(ds_geo, 470).idx]
               ELSE bsel
    /\ UNCHANGED <<cmrVars, ncfile, ds, ds_geo, rgb>>

\* def gamma_adjust ...; r = gamma_adjust(ds_geo,b650); g = gamma_adjust(ds_geo,b560);
\* b = gamma_adjust(ds_geo,b470); rgb = np.stack([r,g,b]); ds_rgb = xr.Dataset(...)
Scale ==
    \E wr \in WholeGamma(BandPlane(ds_geo, bsel.b650)),
       wg \in WholeGamma(BandPlane(ds_geo, bsel.b560)),
       wb \in WholeGamma(BandPlane(ds_geo, bsel.b470)) :
        LET r == GammaAdjust(ds_geo, bsel.b650, wr)
            g == GammaAdjust(ds_geo, bsel.b560, wg)
            b == GammaAdjust(ds_geo, bsel.b470, wb)
            exc == IF r.err # "none" THEN r.err
                   ELSE IF g.err # "none" THEN g.err ELSE b.err
        IN  /\ Cell("scale", "plot", {"ds_geo", "b650", "b560", "b470"},
                    {"gamma_adjust", "r", "g", "b", "rgb", "ds_rgb"}, exc)
            /\ rgb' = IF rerr' = "none" THEN <<r.scaled, g.scaled, b.scaled>> ELSE rgb
            /\ ds_geo' = AfterGammaAdjust(AfterGammaAdjust(AfterGammaAdjust(
                             ds_geo, bsel.b650), bsel.b560), bsel.b470)
            /\ UNCHANGED <<cmrVars, ncfile, ds, bsel>>

\* map = ds_rgb.hvplot.rgb(...); the streams and the spectra of ds_geo at the
\* pointer.
Plot ==
    /\ Cell("plot", "end", {"ds_rgb", "ds_geo"}, {"map", "posxy", "clickxy"}, "none")
    /\ UNCHANGED <<cmrVars, ncfile, ds, ds_geo, bsel, rgb>>

NextRfl ==
    \/ OpenNc
    \/ OpenRefl
    \/ OpenWvl
    \/ OpenLoc
    \/ Merge
    \/ AssignCoordsCell
    \/ DelInputs
    \/ Example
    \/ MaskDs
    \/ B850
    \/ ReopenLoc
    \/ DelLocExample
    \/ OrthoCell
    \/ B850Geo
    \/ MaskGeo
    \/ Point
    \/ RgbBands
    \/ Scale
    \/ Plot

\* A run of the reflectance notebook on one of the granule files; the search
\* notebook is not run.
EmptyServer ==
    [catalogue |-> <<>>, per_page |-> 1, fault_at |-> 0, fault_kind |-> "none",
     endless |-> FALSE]
InitRfl ==
    /\ CmrStart(EmptyServer)
    /\ \E f \in NcFiles : RflStart(f)

SpecRfl == InitRfl /\ [][NextRfl]_vars

\* ------------------------------------------------------------------ claims
NonEmptyPage(r) == r.kind = "json" /\ r.entry # <<>>
EmptyPage(r) == r.kind = "json" /\ r.entry = <<>>
LoopRunning == pc \in {"post", "await"}

\* No request is issued after an empty page: every request but the first
\* follows non-empty pages only.
NoRequestAfterEmpty ==
    /\ Len(received) <= Len(requests)
    /\ Len(requests) <= Len(received) + 1
    /\ \A i \in 1..Len(requests) : \A j \in 1..(i - 1) : NonEmptyPage(received[j])

\* The loop stops at the first empty page.
StopsAtEmptyPage ==
    \A j \in 1..Len(received) :
        EmptyPage(received[j]) => j = Len(received) /\ ~LoopRunning

\* C1 as stated: in each search loop no granule request is issued after an
\* empty page has been received, the loop stops at the first empty page, and
\* as long as every page received so far was non-empty the loop issues
\* another request.
C1_AsStated ==
    /\ NoRequestAfterEmpty
    /\ StopsAtEmptyPage
    /\ (search >= 1 /\ pc # "await"
        /\ \A j \in 1..Len(received) : NonEmptyPage(received[j]))
       => pc = "post"

\* C1 (amended): in each search loop no granule request is issued after an
\* empty page has been received, the loop stops at the first empty page, and
\* as long as every response received so far was a non-empty page that was
\* read without an exception the loop issues another request.
C1_StopsAtFirstEmptyPage ==
    /\ NoRequestAfterEmpty
    /\ StopsAtEmptyPage
    /\ (search >= 1 /\ pc # "await" /\ error = "none"
        /\ \A j \in 1..Len(received) : NonEmptyPage(received[j]))
       => pc = "post"

\* A search has received non-empty pages and then an empty one, and has stopped.
C1_Witness ==
    /\ pc = "done"
    /\ Len(received) >= 2
    /\ EmptyPage(received[Len(received)])
    /\ NonEmptyPage(received[1])

RequiredParams == {"collection_concept_id", "page_size", "page_num", "temporal"}
SpatialConstraints(req) ==
    {k \in {"point", "bounding_box[]"} : k \in DOMAIN req.data}
        \cup {k \in {"shapefile"} : k \in DOMAIN req.files}

\* C2: every granule request of a search carries collection_concept_id,
\* page_size, page_num and temporal plus exactly one spatial constraint (point,
\* bounding_box[] or a multipart shapefile); within one search only page_num
\* differs between requests, and page_size is 2000 in every request.
C2_RequestParameters ==
    /\ \A i \in 1..Len(requests) :
          /\ RequiredParams \subseteq DOMAIN requests[i].data
          /\ Cardinality(SpatialConstraints(requests[i])) = 1
          /\ requests[i].data.page_size = 2000
          /\ requests[i].data.collection_concept_id = concept_id
          /\ requests[i].data.temporal = temporal_str
    /\ \A i, j \in 1..Len(requests) :
          /\ [requests[i].data EXCEPT !.page_num = 0] = [requests[j].data EXCEPT !.page_num = 0]
          /\ DOMAIN requests[i].files = DOMAIN requests[j].files
          /\ \A k \in DOMAIN requests[i].files : requests[i].files[k] = requests[j].files[k]

\* Each of the three searches has sent a second request.
C2_Witness ==
    /\ Len(requests) >= 2
    /\ requests[1].data.page_num # requests[2].data.page_num
    /\ search = 3
    /\ "shapefile" \in DOMAIN requests[2].files

\* The entries the running search has read, in the order received.
RECURSIVE EntriesOf(_)
EntriesOf(rs) ==
    IF rs = <<>> THEN <<>> ELSE Head(rs).entry \o EntriesOf(Tail(rs))

HasSpecial(u) == \E i \in 1..Len(u) : u[i] \in {",", DQuote, "\n", "\r"}

C4_NoDuplicateLines ==
    pc = "end" =>
        /\ \A i, j \in 1..Len(file.lines) : file.lines[i] = file.lines[j] => i = j
        /\ \A k \in 1..Len(cmr_results_df) :
              \E i \in 1..Len(file.lines) : file.lines[i] = CsvField(cmr_results_df[k].asset_url)

\* C5: given the same server responses, the point, bounding box and polygon
\* searches end with the same granule_arr (and the same outcome).
C5_SameGranuleArr ==
    \A j, k \in 1..Len(found) : found[j] = found[k]

WantedHref(h) ==
    /\ Contains(h, <<"h", "t", "t", "p", "s">>)
    /\ Contains(h, <<".", "n", "c">>)
    /\ ~Contains(h, <<".", "d", "m", "r", "p", "p">>)
HrefsOf(g) == [i \in 1..Len(g.links) |-> g.links[i].href]

\* C6: for every granule, granule_urls is exactly the sub-sequence of the
\* granule's link hrefs that contain 'https' and '.nc' and not '.dmrpp', in
\* the order of the links; no .dmrpp and no non-https link is recorded.
C6_GranuleUrls ==
    /\ Len(granule_arr) <= Len(EntriesOf(received))
    /\ \A k \in 1..Len(granule_arr) :
          /\ granule_arr[k][1] = SelectSeq(HrefsOf(EntriesOf(received)[k]), WantedHref)
          /\ \A i \in 1..Len(granule_arr[k][1]) :
                /\ ~Contains(granule_arr[k][1][i], <<".", "d", "m", "r", "p", "p">>)
                /\ Contains(granule_arr[k][1][i], <<"h", "t", "t", "p", "s">>)

\* A granule some of whose links were recorded and some not.
C6_Witness ==
    \E k \in 1..Len(granule_arr) :
        /\ Len(granule_arr[k][1]) >= 2
        /\ Len(granule_arr[k][1]) < Len(EntriesOf(received)[k].links)

\* The granules of granule_arr that the table keeps: those whose entry had
\* a 'polygons' key.
KeptGranules ==
    {k \in 1..Len(granule_arr) : "polygons" \in DOMAIN EntriesOf(received)[k]}
RowsOf(df, k) == SelectSeq(df, LAMBDA r : r.idx = k - 1)

\* C7: building the results table drops exactly the granules with empty
\* geometry: a granule of granule_arr is in the table iff its entry had a
\* 'polygons' key, and the kept granules keep their relative order, cloud
\* cover and polygon.
C7_DropsEmptyGeometry ==
    pc = "cell_filter" =>
        /\ {cmr_results_df[i].idx + 1 : i \in 1..Len(cmr_results_df)} = KeptGranules
        /\ \A i, j \in 1..Len(cmr_results_df) :
              i < j => cmr_results_df[i].idx <= cmr_results_df[j].idx
        /\ \A i \in 1..Len(cmr_results_df) :
              LET r == cmr_results_df[i]
                  g == EntriesOf(received)[r.idx + 1]
              IN  /\ r.cloud_cover = g.cloud_cover
                  /\ r.granule_poly = granule_arr[r.idx + 1][3]
                  /\ r.granule_poly # EmptyStr
                  /\ Len(r.granule_poly.geoms) = Len(g.polygons)

\* A table built from a granule with geometry and a granule without.
C7_Witness ==
    /\ pc = "cell_filter"
    /\ KeptGranules # {}
    /\ KeptGranules # 1..Len(granule_arr)
    /\ cmr_results_df # <<>>

\* The part of a string after its last '/'.
AfterLastSlash(u) ==
    LET at == {i \in 1..Len(u) : u[i] = "/"}
    IN  IF at = {} THEN u
        ELSE SubSeq(u, (CHOOSE i \in at : \A j \in at : j <= i) + 1, Len(u))

WantedAsset(r) ==
    /\ ~IsNaN(r.asset_name)
    /\ \/ Contains(r.asset_name, <<"_", "R", "F", "L", "_">>)
       \/ Contains(r.asset_name, <<"M", "A", "S", "K">>)
UncertOnly(name) ==
    /\ Contains(name, <<"R", "F", "L", "U", "N", "C", "E", "R", "T">>)
    /\ ~Contains(name, <<"_", "R", "F", "L", "_">>)
    /\ ~Contains(name, <<"M", "A", "S", "K">>)

\* C9: the asset filter keeps exactly the rows whose asset_name contains
\* '_RFL_' or 'MASK', in order and unchanged, and no reflectance uncertainty
\* asset survives.
C9_AssetFilter ==
    pc \in {"cell_save", "end"} =>
        /\ cmr_results_df = SelectSeq(ResultsTable(granule_arr), WantedAsset)
        /\ \A i \in 1..Len(cmr_results_df) : ~UncertOnly(cmr_results_df[i].asset_name)

\* A filtered table that lost an uncertainty row and kept others.
C9_Witness ==
    /\ pc = "cell_save"
    /\ \E i \in 1..Len(ResultsTable(granule_arr)) :
          /\ ~IsNaN(ResultsTable(granule_arr)[i].asset_name)
          /\ UncertOnly(ResultsTable(granule_arr)[i].asset_name)
    /\ Len(cmr_results_df) >= 2

\* A response the loop cannot read: the request failed, the body is not
\* JSON or has no 'feed'/'entry', or a granule lacks 'cloud_cover' or 'links'.
Unreadable(r) ==
    \/ r.kind # "json"
    \/ \E i \in 1..Len(r.entry) :
          "cloud_cover" \notin DOMAIN r.entry[i] \/ "links" \notin DOMAIN r.entry[i]

\* C10: no retry or recovery: an unreadable response is the last one of its
\* search, the loop ends with the error, the failing page is not requested
\* again, no later page is requested, and no later cell takes the result as
\* a completed search.
C10_NoRetry ==
    \A j \in 1..Len(received) :
        Unreadable(received[j]) =>
            /\ j = Len(received)
            /\ Len(requests) = Len(received)
            /\ \A i \in 1..(j - 1) : requests[i].data.page_num # requests[j].data.page_num
            /\ pc = "error"
            /\ error # "none"
            /\ found # <<>> /\ found[Len(found)].err = error
            /\ cmr_results_df = <<>> /\ ~file.exists

\* A search ended by an unreadable second page, with the first page's
\* granules in granule_arr.
C10_Witness ==
    /\ pc = "error"
    /\ Len(received) >= 2
    /\ Unreadable(received[Len(received)])
    /\ granule_arr # <<>>

\* The granules of the first n responses of the running search are the first
\* items of granule_arr, in the order received.
PagesAppended(n) ==
    LET es == EntriesOf(SubSeq(received, 1, n))
    IN  /\ Len(granule_arr) >= Len(es)
        /\ \A i \in 1..Len(es) : granule_arr[i] = GranuleItem(es[i])

\* C11: the searches are synchronous: at most one HTTP request is outstanding
\* at any time and the notebook waits while it is, the concept ID lookup has
\* completed before the first granule request, and the request for page n+1
\* is issued only after the response for page n has been received and every
\* granule of page n has been appended to granule_arr.
C11_Synchronous ==
    /\ Len(inflight) <= 1
    /\ inflight # <<>> => pc = "await"
    /\ requests # <<>> =>
          /\ concept_id = ConceptId
          /\ \A i \in 1..Len(requests) :
                requests[i].data.collection_concept_id = ConceptId
    /\ \A k \in 2..Len(requests) :
          /\ Len(received) >= k - 1
          /\ PagesAppended(k - 1)

\* The request for a second page is outstanding and the granules of the
\* first page are in granule_arr.
C11_Witness ==
    /\ pc = "await"
    /\ Len(inflight) = 1
    /\ Len(requests) = 2
    /\ Len(received) = 1
    /\ Len(granule_arr) = Len(received[1].entry)
    /\ granule_arr # <<>>

\* The value a csv line stands for: the quoting of CsvField undone.
RECURSIVE UndoubleQuotes(_)
UndoubleQuotes(s) ==
    IF s = <<>> THEN <<>>
    ELSE IF Len(s) >= 2 /\ s[1] = DQuote /\ s[2] = DQuote
         THEN <<DQuote>> \o UndoubleQuotes(SubSeq(s, 3, Len(s)))
    ELSE <<Head(s)>> \o UndoubleQuotes(Tail(s))
CsvValue(line) ==
    IF Len(line) >= 2 /\ line[1] = DQuote /\ line[Len(line)] = DQuote
    THEN UndoubleQuotes(SubSeq(line, 2, Len(line) - 1))
    ELSE line

\* The hrefs the running search was given, over all its pages.
ReturnedHrefs ==
    UNION { {g.links[i].href : i \in 1..Len(g.links)} :
              g \in {EntriesOf(received)[k] : k \in 1..Len(granule_arr)} }
TableStages == {"cell_filter", "cell_save", "end"}

NonEmptyPages(n) == {j \in 1..n : NonEmptyPage(received[j])}

\* The k-th granule request of a search asks for page k.
RequestsInPageOrder ==
    \A k \in 1..Len(requests) : requests[k].data.page_num = k

\* C19 as stated: within one search the k-th granule request carries
\* page_num = k, so no page number is requested twice or skipped, and
\* page_num has grown by exactly 1 after each non-empty page.
C19_AsStated ==
    /\ RequestsInPageOrder
    /\ search >= 1 /\ pc # "await" =>
          page_num = 1 + Cardinality(NonEmptyPages(Len(received)))

\* C19 (amended): within one search the k-th granule request carries
\* page_num = k, so no page number is requested twice or skipped, and
\* page_num has grown by exactly 1 after each non-empty page that was read
\* without an exception; a page whose reading raised leaves page_num as it was.
C19_PageOrder ==
    /\ RequestsInPageOrder
    /\ search >= 1 /\ pc # "await" =>
          page_num = 1 + Cardinality(NonEmptyPages(
                            IF error = "none" THEN Len(received) ELSE Len(received) - 1))
    /\ pc = "await" => page_num = Len(requests)

\* A search that asked for pages 1, 2 and 3 and stopped at the empty third.
C19_Witness ==
    /\ pc = "done"
    /\ Len(requests) = 3
    /\ page_num = 3
    /\ EmptyPage(received[3])

\* An empty page ends the loop, one request after the last non-empty page.
EmptyPageEndsLoop ==
    \A j \in 1..Len(received) :
        EmptyPage(received[j]) =>
            /\ ~LoopRunning
            /\ Len(requests) = Cardinality(NonEmptyPages(Len(received))) + 1

\* The server has a non-empty page for every page number.
AlwaysNonEmpty == server.endless /\ server.fault_at = 0

\* The loop of the first search is still running and granule_arr holds at
\* least one granule for every page received.
LoopGoesOn ==
    /\ search = 1
    /\ LoopRunning
    /\ Len(granule_arr) >= Len(received)
    /\ pc = "post" => page_num = Len(received) + 1

\* C20 as stated: an empty page ends the loop after exactly one request more
\* than the number of non-empty pages; against a server that has a non-empty
\* page for every page number the loop never ends and granule_arr grows with
\* every page.
C20_AsStated ==
    /\ EmptyPageEndsLoop
    /\ (AlwaysNonEmpty /\ search >= 1) => LoopGoesOn

\* The pages a server with finitely many matching granules has for the
\* running search.
PagesHeld == PagesOf(Len(server.catalogue), Min(page_size, server.per_page))

\* C20 (amended): an empty page ends the loop after exactly one request more
\* than the number of non-empty pages; against a server with finitely many
\* matching granules the loop makes at most one request more than the server
\* has pages, so it ends; against a server that has a non-empty page for
\* every page number the loop goes on and granule_arr grows with every page
\* for as long as no page raises an exception, and the first exception ends
\* it.
C20_LoopTermination ==
    /\ EmptyPageEndsLoop
    /\ (~server.endless /\ search >= 1) =>
          /\ Len(requests) <= PagesHeld + 1
          /\ pc = "post" => Len(requests) <= PagesHeld
    /\ (AlwaysNonEmpty /\ search >= 1 /\ error = "none") => LoopGoesOn
    /\ error # "none" => pc = "error"

\* A loop against a server with a non-empty page for every page number, three
\* pages read and the fourth request due.
C20_Witness ==
    /\ AlwaysNonEmpty
    /\ pc = "post"
    /\ Len(received) = 3
    /\ Len(granule_arr) >= 3

\* The cells that have run in the reflectance notebook.
Ran == {ran[i] : i \in 1..Len(ran)}

\* The flag value -0.01 of the water absorption bands.
Flag == F(-1)

\* Array after is array before with the flag replaced by NaN: where before
\* holds the flag after holds NaN, every other element is the same, and
\* after holds no flag.
FlagMasked(before, after) ==
    /\ DOMAIN after = DOMAIN before
    /\ \A p \in DOMAIN before :
          /\ Len(after[p]) = Len(before[p])
          /\ \A b \in 1..Len(before[p]) :
                /\ before[p][b] = Flag => IsFNaN(after[p][b])
                /\ before[p][b] # Flag => after[p][b] = before[p][b]
                /\ after[p][b] # Flag
NoFlag(d) ==
    \A p \in DOMAIN d.reflectance :
        \A b \in 1..Len(d.reflectance[p]) : d.reflectance[p][b] # Flag

\* The step of the masking cell of ds, and of ds_geo.
MaskDsStep == rpc = "mask_ds" /\ rpc' = "b850"
MaskGeoStep == rpc = "mask_geo" /\ rpc' = "point"

\* C13: a water-absorption masking cell replaces, in the dataset it runs on
\* (ds or ds_geo), every reflectance element equal to -0.01 by NaN and
\* leaves every other element as it was; from then on the dataset holds no
\* element equal to -0.01, and the masked ds is what the file held with
\* the flag replaced.
C13_Masking ==
    /\ [][/\ MaskDsStep => FlagMasked(ds.reflectance, ds'.reflectance)
          /\ MaskGeoStep => FlagMasked(ds_geo.reflectance, ds_geo'.reflectance)]_vars
    /\ []("mask_ds" \in Ran => NoFlag(ds) /\ FlagMasked(ncfile.reflectance, ds.reflectance))
    /\ []("mask_geo" \in Ran => NoFlag(ds_geo))

\* Both masking cells have run on a file with flagged and unflagged
\* elements, and the flagged ones are NaN in ds and in ds_geo.
C13_Witness ==
    /\ {"mask_ds", "mask_geo"} \subseteq Ran
    /\ \E p \in Pixels : \E b, c \in 1..NumBands :
          /\ ncfile.reflectance[p][b] = Flag
          /\ IsFNaN(ds.reflectance[p][b])
          /\ ~IsFNaN(ncfile.reflectance[p][c])
          /\ ds.reflectance[p][c] = ncfile.reflectance[p][c]
          /\ \E q \in Cells : ncfile.glt[q] = p /\ IsFNaN(ds_geo.reflectance[q][b])

\* The distance of a defined wavelength from the target.
Dist(x, t) == IF x[1] >= t THEN x[1] - t ELSE t - x[1]

\* i is the 0-based index of the first band, among those with a defined
\* wavelength, that is nearest to t.
FirstNearest(w, t, i) ==
    /\ i \in 0..(Len(w) - 1)
    /\ ~IsFNaN(w[i + 1])
    /\ \A j \in 1..Len(w) :
          ~IsFNaN(w[j]) =>
              /\ Dist(w[i + 1], t) <= Dist(w[j], t)
              /\ j < i + 1 => Dist(w[i + 1], t) < Dist(w[j], t)

\* C14: the band chosen for a target wavelength (850, 650, 560, 470 nm) is
\* the nearest band: no band with a defined wavelength is nearer, and among
\* the bands at the least distance the one with the lowest index is chosen;
\* a band is chosen whenever some band has a defined wavelength.
C14_NearestBand ==
    /\ ({"b850", "b850_geo"} \cap Ran # {}) => FirstNearest(ncfile.wavelengths, 850, bsel.b850)
    /\ "rgb_bands" \in Ran =>
          /\ FirstNearest(ncfile.wavelengths, 650, bsel.b650)
          /\ FirstNearest(ncfile.wavelengths, 560, bsel.b560)
          /\ FirstNearest(ncfile.wavelengths, 470, bsel.b470)
    /\ (\E j \in 1..Len(ncfile.wavelengths) : ~IsFNaN(ncfile.wavelengths[j]))
          => (rpc = "error" => "rgb_bands" \in Ran)

\* The bands have been chosen from wavelengths with a missing value and two
\* bands equally near to 470 nm, and the first of the two is b470.
C14_Witness ==
    /\ "rgb_bands" \in Ran
    /\ \E i, j, k \in 1..NumBands :
          /\ i < j
          /\ IsFNaN(ncfile.wavelengths[k])
          /\ ncfile.wavelengths[i] = F(475)
          /\ ncfile.wavelengths[j] = F(465)
          /\ bsel.b470 = i - 1

\* The bands r, g and b are scaled from, in the order of rgb.
RgbBandOf == <<bsel.b650, bsel.b560, bsel.b470>>

\* Where a value between 0 and 1 inclusive lies.
ZeroToOne == {"zero", "frac", "one"}

\* C15: every element of an array returned by gamma_adjust lies between 0
\* and 1 inclusive, and every element whose input reflectance is NaN is 1.
C15_GammaRange ==
    "scale" \in Ran =>
        \A k \in 1..3 :
            /\ DOMAIN rgb[k] = DOMAIN ds_geo.reflectance
            /\ \A c \in DOMAIN rgb[k] :
                  /\ rgb[k][c] \in ZeroToOne
                  /\ IsFNaN(ds_geo.reflectance[c][RgbBandOf[k] + 1]) => rgb[k][c] = "one"

\* gamma_adjust has returned for a plane with a missing and a zero element
\* and one that the power takes above 1, and the three results hold 0, 1
\* and values in between.
C15_Witness ==
    /\ "scale" \in Ran
    /\ \E k \in 1..3 : \E c1, c2, c3 \in Cells :
          LET in(c) == ds_geo.reflectance[c][RgbBandOf[k] + 1]
          IN  /\ IsFNaN(in(c1)) /\ rgb[k][c1] = "one"
              /\ in(c2) = F(0) /\ rgb[k][c2] = "zero"
              /\ ~IsFNaN(in(c3)) /\ in(c3)[1] > Unit /\ rgb[k][c3] = "one"
    /\ UNION {{rgb[k][c] : c \in Cells} : k \in 1..3} = ZeroToOne

\* C16: gamma_adjust has no impact on the data: the cell that calls it for
\* the three bands, and the plotting cell after it, leave every value,
\* coordinate and dimension of ds_geo (and of ds) as they were, whether
\* gamma_adjust returns or raises.
C16_NoImpact ==
    [][(rpc \in {"scale", "plot"}) => (ds_geo' = ds_geo /\ ds' = ds)]_vars

\* gamma_adjust has returned 1 for an element above 1, and ds_geo still
\* holds the element.
C16_Witness ==
    /\ "scale" \in Ran
    /\ \E k \in 1..3 : \E c \in Cells :
          LET x == ds_geo.reflectance[c][RgbBandOf[k] + 1]
          IN  ~IsFNaN(x) /\ x[1] > Unit /\ rgb[k][c] = "one"

\* The names the notebook deletes.
Deleted == {"refl", "wvl", "loc", "example"}

\* C17: in a top-to-bottom run of the reflectance notebook no cell raises
\* NameError: each deletion cell finds every name it deletes bound (refl,
\* wvl, loc, then loc and example), a deleted name is gone until a cell
\* binds it again and no cell reads it meanwhile, and after refl, wvl and
\* loc are deleted ds is still bound to the merged dataset with its
\* reflectance and wavelengths.
C17_Deletions ==
    /\ rerr # "NameError"
    /\ rpc = "del_inputs" => {"refl", "wvl", "loc"} \subseteq bound
    /\ rpc = "del_loc_example" => {"loc", "example"} \subseteq bound
    /\ ("del_inputs" \in Ran /\ "reopen_loc" \notin Ran) =>
          bound \cap {"refl", "wvl", "loc"} = {}
    /\ "del_loc_example" \in Ran => bound \cap Deleted = {}
    /\ "del_inputs" \in Ran =>
          /\ "ds" \in bound
          /\ ds.kind = "xarray"
          /\ DOMAIN ds.reflectance = DOMAIN ncfile.reflectance
          /\ ds.wavelengths = ncfile.wavelengths

\* The notebook has run to its last cell, both deletion cells included, and
\* ds and ds_geo are bound.
C17_Witness ==
    /\ rpc = "end"
    /\ {"del_inputs", "del_loc_example", "plot"} \subseteq Ran
    /\ bound \cap Deleted = {}
    /\ {"ds", "ds_geo"} \subseteq bound

\* C18: emit_xarray(fp, ortho=True) is a gather over the GLT: the result is
\* on the (latitude, longitude, bands) grid of the GLT's shape, every cell
\* with a GLT entry holds the spectrum of the raw pixel at the (downtrack,
\* crosstrack) its entry names, and every cell has as many bands as the
\* file.
C18_OrthoGather ==
    ("ortho" \in Ran /\ "mask_geo" \notin Ran) =>
        /\ ds_geo.dims = <<"latitude", "longitude", "bands">>
        /\ DOMAIN ds_geo.reflectance = DOMAIN ncfile.glt
        /\ ds_geo.wavelengths = ncfile.wavelengths
        /\ \A c \in DOMAIN ncfile.glt :
              /\ Len(ds_geo.reflectance[c]) = Len(ncfile.wavelengths)
              /\ ncfile.glt[c] # NoEntry =>
                    ds_geo.reflectance[c] = ncfile.reflectance[ncfile.glt[c]]

\* An orthorectified dataset from a GLT with a cell without entry and a
\* cell whose pixel has different downtrack and crosstrack indices and a
\* spectrum of its own.
C18_Witness ==
    /\ "ortho" \in Ran /\ "mask_geo" \notin Ran
    /\ \E c, e \in Cells :
          /\ ncfile.glt[e] = NoEntry
          /\ ncfile.glt[c] # NoEntry
          /\ ncfile.glt[c][1] # ncfile.glt[c][2]
          /\ ds_geo.reflectance[c] = ncfile.reflectance[ncfile.glt[c]]
          /\ ds_geo.reflectance[c] #
                ncfile.reflectance[<<ncfile.glt[c][2], ncfile.glt[c][1]>>]

\* The numbers of a ring string, in order.
RingNumbers(ring) ==
    LET toks == Split(ring, " ") IN [i \in 1..Len(toks) |-> FloatOf(toks[i])]

\* Polygon poly is built from ring string ring: the numbers are taken two by
\* two as (latitude, longitude), the k-th pair is the k-th vertex as
\* (longitude, latitude), and a last number without a partner is left out.
BuiltFromRing(poly, ring) ==
    LET nums == RingNumbers(ring)
    IN  /\ Len(poly.shell) = Len(nums) \div 2
        /\ \A k \in 1..Len(poly.shell) :
              poly.shell[k] = <<nums[2 * k], nums[2 * k - 1]>>

\* C21: for a granule with a 'polygons' key the recorded geometry has one
\* polygon per entry of 'polygons', in order, built from the entry's first
\* ring only: the ring's numbers are paired consecutively as (latitude,
\* longitude), each pair becomes the vertex (longitude, latitude) in the
\* order of the pairs, and a trailing unpaired number is ignored.
C21_PolygonParsing ==
    \A k \in 1..Len(granule_arr) :
        LET g == EntriesOf(received)[k]
            poly == granule_arr[k][3]
        IN  "polygons" \in DOMAIN g =>
                /\ poly # EmptyStr
                /\ Len(poly.geoms) = Len(g.polygons)
                /\ \A j \in 1..Len(g.polygons) :
                      BuiltFromRing(poly.geoms[j], g.polygons[j][1])

\* A recorded granule with two 'polygons' entries: the first has a ring of
\* seven numbers and gave three vertices beginning with (2, -1), the second
\* has two rings and gave the polygon of its first ring.
C21_Witness ==
    \E k \in 1..Len(granule_arr) :
        LET g == EntriesOf(received)[k]
            poly == granule_arr[k][3]
        IN  /\ "polygons" \in DOMAIN g
            /\ Len(g.polygons) = 2
            /\ Len(RingNumbers(g.polygons[1][1])) = 7
            /\ poly.geoms[1].shell = <<<<2, 0 - 1>>, <<4, 3>>, <<6, 5>>>>
            /\ Len(g.polygons[2]) = 2
            /\ g.polygons[2][1] # g.polygons[2][2]
            /\ poly.geoms[2].shell = <<<<2, 1>>, <<4, 3>>, <<6, 5>>>>

====
